---- MODULE Spec2Model ----
(***************************************************************************)
(* A model of flashOERModel.py: the FLASH oxygen-depletion model           *)
(* (oxygenCurve, OER, cumulativeOER, predictSurvival).                     *)
(*                                                                         *)
(* Numbers.  The program computes in IEEE doubles.  Here a finite number   *)
(* x is the integer round(x * Scale) (fixed point, six decimals); np.exp   *)
(* and np.log are computed by range reduction and power series on that     *)
(* grid, so a value of the model approximates the program's (to about      *)
(* 1e-5 where the quotients are well conditioned, to about 1e-3 where a    *)
(* denominator is small).  What is not a finite number is kept apart: a    *)
(* result is a record whose kind is "num", "nan", "inf", "-inf" (what      *)
(* NumPy returns, with a RuntimeWarning, for a division by zero) or        *)
(* "raise" (the ZeroDivisionError Python raises when both operands are     *)
(* Python numbers).  The flag np of a call says which of the two its       *)
(* numeric arguments are: the plotting layer passes NumPy scalars          *)
(* (np.arange doses, pow(10, x) dose rates), a plain caller Python floats. *)
(***************************************************************************)
EXTENDS Integers, Sequences, FiniteSets, TLC

VARIABLES
    linearModel,  \* the module flag of line 47
    pc,           \* "idle" | "loop" | "returned" | "raised"
    fn,           \* the function being called, "none" when idle
    args,         \* its arguments
    i,            \* predictSurvival: index of the next exposure
    retVals,      \* predictSurvival: the list built so far
    ret           \* what the call returned (or the error it raised)

vars == <<linearModel, pc, fn, args, i, retVals, ret>>

-----------------------------------------------------------------------------
(* Fixed-point arithmetic *)

Scale == 1000 * 1000

Abs(x) == IF x < 0 THEN -x ELSE x
Sgn(x) == IF x < 0 THEN -1 ELSE 1

\* a * b / Scale, rounded to nearest, without leaving 32 bits.
MulU(a, b) ==
    LET ah == a \div 1000
        al == a % 1000
        bh == b \div 1000
        bl == b % 1000
    IN  ah * bh + (ah * bl + al * bh + (al * bl + 500) \div 1000 + 500) \div 1000

Mul(a, b) == Sgn(a) * Sgn(b) * MulU(Abs(a), Abs(b))

RECURSIVE FracDigits(_, _, _)
FracDigits(r, b, n) ==
    IF n = 0 THEN 0
    ELSE LET d == (r * 10) \div b
             r1 == (r * 10) % b
         IN  d * (10 ^ (n - 1)) + FracDigits(r1, b, n - 1)

\* a * Scale / b for b # 0, rounded to nearest, by long division.
DivU(a, b) == (a \div b) * Scale + (FracDigits(a % b, b, 7) + 5) \div 10

Div(a, b) == Sgn(a) * Sgn(b) * DivU(Abs(a), Abs(b))

RECURSIVE ExpSeries(_, _, _, _)
ExpSeries(f, term, k, n) ==
    IF k > n \/ term = 0 THEN 0
    ELSE term + ExpSeries(f, -(Mul(term, f) \div k), k + 1, n)

\* exp(-y) for y >= 0: y = n*ln2 + f, exp(-y) = exp(-f) / 2^n.  Exactly
\* Scale at y = 0, and 0 once it underflows the grid.
ExpNeg(y) ==
    LET LN2 == 693147
        n == y \div LN2
        f == y % LN2
    IN  IF n >= 30 THEN 0 ELSE ExpSeries(f, Scale, 1, 14) \div (2 ^ n)

\* np.exp
Exp(x) == IF x <= 0 THEN ExpNeg(-x) ELSE Div(Scale, ExpNeg(x))

RECURSIVE AtanhSeries(_, _, _, _)
AtanhSeries(z2, pow, k, n) ==
    IF k > n \/ pow = 0 THEN 0
    ELSE pow \div k + AtanhSeries(z2, Mul(pow, z2), k + 2, n)

\* np.log of x > 0: x = m * 2^e with 1 <= m < 2, ln m = 2 atanh((m-1)/(m+1)).
RECURSIVE Ln(_)
Ln(x) ==
    LET LN2 == 693147
    IN  IF x >= 2 * Scale THEN Ln(x \div 2) + LN2
        ELSE IF x < Scale THEN Ln(2 * x) - LN2
        ELSE LET z == Div(x - Scale, x + Scale)
             IN  2 * AtanhSeries(Mul(z, z), z, 1, 15)

-----------------------------------------------------------------------------
(* Results *)

Fin(v) == [kind |-> "num", v |-> v]
NaN == [kind |-> "nan", v |-> 0]
PosInf == [kind |-> "inf", v |-> 0]
NegInf == [kind |-> "-inf", v |-> 0]
ZeroDivisionError == [kind |-> "raise", v |-> 0]

\* x / 0.0 for a NumPy numerator x that real arithmetic makes 0: the double
\* is 0 or a rounding residue of either sign, so the quotient is nan, inf or
\* -inf; rnd names which.
ZeroOverZero(rnd) == CASE rnd = "inf" -> PosInf [] rnd = "-inf" -> NegInf [] OTHER -> NaN

Unset == [kind |-> "unset", v |-> 0]

IsFinite(x) == x.kind = "num"

-----------------------------------------------------------------------------
(* Default parameters, lines 47-58 *)

REFoxDep == IF linearModel THEN 518 ELSE 53000

REFoxRec == IF linearModel THEN Scale ELSE Scale

REFOERCenter == Scale \div 100

-----------------------------------------------------------------------------
(* oxygenCurve, lines 62-69 *)

\* Line 65 before the clip: O2Mean + doseRate*oxDepletion/oxRecovery*(exp(-oxRecovery*t)-1).
\* With oxRecovery = 0 the quotient of Python numbers raises; of NumPy scalars
\* it is inf (or nan), and inf * (exp(0) - 1) = inf * 0 = nan.
estO2(t, doseRate, O2Mean, oxDepletion, oxRecovery, np) ==
    IF oxRecovery = 0
    THEN IF np THEN NaN ELSE ZeroDivisionError
    ELSE Fin(O2Mean + Mul(Div(Mul(doseRate, oxDepletion), oxRecovery),
                          Exp(-Mul(oxRecovery, t)) - Scale))

\* np.clip(estO2, 0, None): nan stays nan.
clip(x) == IF x.kind = "num" /\ x.v < 0 THEN Fin(0) ELSE x

\* Lines 68-69: (O2Mean/(r+k)) * (r*exp(-(r+k)*t) + k), r = doseRate*oxDepletion.
proportionalO2(t, doseRate, O2Mean, oxDepletion, oxRecovery, np) ==
    LET r == Mul(doseRate, oxDepletion)
    IN  IF r + oxRecovery = 0
        THEN IF np THEN NaN ELSE ZeroDivisionError
        ELSE Fin(Mul(Div(O2Mean, r + oxRecovery),
                     Mul(r, Exp(-Mul(r + oxRecovery, t))) + oxRecovery))

\* One element of the result.
oxygenAt(t, doseRate, O2Mean, oxDepletion, oxRecovery, np) ==
    IF linearModel
    THEN clip(estO2(t, doseRate, O2Mean, oxDepletion, oxRecovery, np))
    ELSE proportionalO2(t, doseRate, O2Mean, oxDepletion, oxRecovery, np)

\* t is array-like; the arithmetic is element-wise.  The scalar quotient that
\* can raise is evaluated once, before any element.
oxygenCurve(t, doseRate, O2Mean, oxDepletion, oxRecovery, np) ==
    LET vals == [j \in 1..Len(t) |->
                    oxygenAt(t[j], doseRate, O2Mean, oxDepletion, oxRecovery, np)]
    IN  IF \E j \in 1..Len(t) : vals[j].kind = "raise"
        THEN [kind |-> "raise", vals |-> <<>>]
        ELSE [kind |-> "array", vals |-> vals]

-----------------------------------------------------------------------------
(* OER, lines 73-75 *)

OER(oxygen, centralPoint) ==
    IF oxygen + centralPoint = 0 THEN ZeroDivisionError
    ELSE Fin(Div(Div(3 * oxygen + centralPoint, oxygen + centralPoint), 3 * Scale))

-----------------------------------------------------------------------------
(* cumulativeOER, lines 79-124 *)

\* What one call did: its result (kind, v), the integration path it took,
\* the operations it evaluated ("div" is t = dose/doseRate of line 83), and
\* its locals.  An operation not evaluated leaves its local Unset.
Outcome(res, path, ops, t, depletionThreshold, crossTime, computed, read) ==
    [kind |-> res.kind, v |-> res.v, path |-> path, ops |-> ops, t |-> t,
     depletionThreshold |-> depletionThreshold, crossTime |-> crossTime,
     crossTimeComputed |-> computed, crossTimeRead |-> read]

\* Lines 86-97: depletion proportional to the O2 concentration.
proportionalOER(t, doseRate, O2Mean, oxDepletion, oxRecovery, OERCenter) ==
    LET r == Mul(oxDepletion, doseRate)
        logArgTwo == Mul(OERCenter + O2Mean, oxRecovery + r)
        logArgThree == Mul(OERCenter, oxRecovery + r)
                       + Mul(O2Mean, oxRecovery + Mul(r, Exp(-Mul(oxRecovery + r, t))))
        NumTermOne == Mul(t, 3 * Mul(oxRecovery, O2Mean) + Mul(OERCenter, oxRecovery + r))
        NumTermTwo == 2 * Mul(OERCenter, Ln(logArgTwo))
        NumTermThree == -2 * Mul(OERCenter, Ln(logArgThree))
        OERNum == NumTermOne + NumTermTwo + NumTermThree
        OERDen == Mul(t, Mul(oxRecovery, O2Mean) + Mul(OERCenter, oxRecovery + r))
    IN  IF logArgTwo <= 0 \/ logArgThree <= 0 \/ OERDen = 0
        THEN NaN
        ELSE Fin(Div(Div(OERNum, OERDen), 3 * Scale))

\* Line 102.  The divisor is 0 only for doseRate = 0 or oxDepletion = 0.
depletionThresholdOf(doseRate, O2Mean, oxDepletion, oxRecovery) ==
    Div(Mul(O2Mean, oxRecovery), Mul(doseRate, oxDepletion))

\* Line 104: -np.log(1 - depletionThreshold)/oxRecovery, reached with
\* depletionThreshold < 1.  np.log returns a NumPy scalar, so oxRecovery = 0
\* gives -0.0/0 = nan and no exception.
crossTimeOf(depletionThreshold, oxRecovery) ==
    IF oxRecovery = 0 THEN NaN
    ELSE Fin(Div(-Ln(Scale - depletionThreshold), oxRecovery))

\* Lines 111-114, as a function of the upper limit x of the integral (the
\* code's t).  Den = 0 is a division of a NumPy scalar by 0.0; the numerator
\* is 0 in real arithmetic there.
directE(x, doseRate, O2Mean, oxDepletion, oxRecovery, OERCenter, rnd) ==
    LET NumTermOne == Mul(3 * Mul(doseRate, oxDepletion) - Mul(OERCenter, oxRecovery)
                          - 3 * Mul(oxRecovery, O2Mean), x)
        logDen == Mul(oxRecovery, OERCenter + O2Mean)
        logArg == Scale + Div(Mul(Mul(doseRate, oxDepletion),
                                  Exp(-Mul(oxRecovery, x)) - Scale), logDen)
        NumTermTwo == 2 * Mul(OERCenter, Ln(logArg))
        Den == 3 * Mul(doseRate, oxDepletion) - 3 * Mul(oxRecovery, O2Mean + OERCenter)
    IN  IF logDen = 0 THEN NaN
        ELSE IF logArg <= 0 THEN NaN
        ELSE IF Den = 0 THEN ZeroOverZero(rnd)
        ELSE Fin(Div(NumTermOne + NumTermTwo, Den))

\* Mutant of splitE: t instead of crossTime in the exponential of line 118.
splitE_ExpUsesT(t, crossTime, doseRate, O2Mean, oxDepletion, oxRecovery, OERCenter, rnd) ==
    LET NumTermOne == Mul(3 * Mul(doseRate, oxDepletion) - Mul(OERCenter, oxRecovery)
                          - 3 * Mul(oxRecovery, O2Mean), crossTime)
        logDen == Mul(oxRecovery, OERCenter + O2Mean)
        logArg == Scale + Div(Mul(Mul(doseRate, oxDepletion),
                                  Exp(-Mul(oxRecovery, t)) - Scale), logDen)
        NumTermTwo == 2 * Mul(OERCenter, Ln(logArg))
        Den == 3 * Mul(doseRate, oxDepletion) - 3 * Mul(oxRecovery, O2Mean + OERCenter)
    IN  IF logDen = 0 THEN NaN
        ELSE IF logArg <= 0 THEN NaN
        ELSE IF Den = 0 THEN ZeroOverZero(rnd)
        ELSE Fin(Div(NumTermOne + NumTermTwo, Den) + Div(t - crossTime, 3 * Scale))

\* Mutant of splitE: t/3 instead of (t - crossTime)/3 in line 122.
splitE_RestFromZero(t, crossTime, doseRate, O2Mean, oxDepletion, oxRecovery, OERCenter, rnd) ==
    LET NumTermOne == Mul(3 * Mul(doseRate, oxDepletion) - Mul(OERCenter, oxRecovery)
                          - 3 * Mul(oxRecovery, O2Mean), crossTime)
        logDen == Mul(oxRecovery, OERCenter + O2Mean)
        logArg == Scale + Div(Mul(Mul(doseRate, oxDepletion),
                                  Exp(-Mul(oxRecovery, crossTime)) - Scale), logDen)
        NumTermTwo == 2 * Mul(OERCenter, Ln(logArg))
        Den == 3 * Mul(doseRate, oxDepletion) - 3 * Mul(oxRecovery, O2Mean + OERCenter)
    IN  IF logDen = 0 THEN NaN
        ELSE IF logArg <= 0 THEN NaN
        ELSE IF Den = 0 THEN ZeroOverZero(rnd)
        ELSE Fin(Div(NumTermOne + NumTermTwo, Den) + Div(t, 3 * Scale))

\* Lines 117-122: up to crossTime, then (t - crossTime)/3 for the rest.
splitE(t, crossTime, doseRate, O2Mean, oxDepletion, oxRecovery, OERCenter, rnd) ==
    LET NumTermOne == Mul(3 * Mul(doseRate, oxDepletion) - Mul(OERCenter, oxRecovery)
                          - 3 * Mul(oxRecovery, O2Mean), crossTime)
        logDen == Mul(oxRecovery, OERCenter + O2Mean)
        logArg == Scale + Div(Mul(Mul(doseRate, oxDepletion),
                                  Exp(-Mul(oxRecovery, crossTime)) - Scale), logDen)
        NumTermTwo == 2 * Mul(OERCenter, Ln(logArg))
        Den == 3 * Mul(doseRate, oxDepletion) - 3 * Mul(oxRecovery, O2Mean + OERCenter)
    IN  IF logDen = 0 THEN NaN
        ELSE IF logArg <= 0 THEN NaN
        ELSE IF Den = 0 THEN ZeroOverZero(rnd)
        ELSE Fin(Div(NumTermOne + NumTermTwo, Den) + Div(t - crossTime, 3 * Scale))

\* Line 124: E/t for a finite t > 0.
overT(E, t) == IF E.kind = "num" THEN Fin(Div(E.v, t)) ELSE E

\* Lines 102-124: depletion independent of the O2 concentration.
independentOER(t, doseRate, O2Mean, oxDepletion, oxRecovery, OERCenter, rnd) ==
    LET depletionThreshold == depletionThresholdOf(doseRate, O2Mean, oxDepletion, oxRecovery)
        below == depletionThreshold < Scale
        crossTime == IF below THEN crossTimeOf(depletionThreshold, oxRecovery) ELSE NaN
        \* line 110: "or" reads crossTime only when the threshold is below 1,
        \* and nan > t is False
        direct == depletionThreshold >= Scale \/ (crossTime.kind = "num" /\ crossTime.v > t)
        E == IF direct
             THEN directE(t, doseRate, O2Mean, oxDepletion, oxRecovery, OERCenter, rnd)
             ELSE IF crossTime.kind = "num"
             THEN splitE(t, crossTime.v, doseRate, O2Mean, oxDepletion, oxRecovery,
                         OERCenter, rnd)
             ELSE NaN
    IN  Outcome(overT(E, t), IF direct THEN "direct" ELSE "split",
                {"div", "exp", "log"},
                Fin(t), Fin(depletionThreshold), crossTime, below, below)

\* dose > 0 and doseRate = 0 with NumPy scalars: line 83 gives t = inf (with a
\* RuntimeWarning) and the call goes on.  Every path ends in nan: inf/inf in
\* line 97; in the other regime line 102 divides by 0.0 (inf, or nan for a
\* zero numerator), and E/t is inf/inf or nan.
infiniteExposure(O2Mean, oxRecovery) ==
    IF ~linearModel
    THEN Outcome(NaN, "dependent", {"div", "exp", "log"}, PosInf, Unset, Unset, FALSE, FALSE)
    ELSE IF Mul(O2Mean, oxRecovery) > 0
    THEN Outcome(NaN, "direct", {"div", "exp", "log"}, PosInf, PosInf, NaN, FALSE, FALSE)
    ELSE Outcome(NaN, "split", {"div", "exp", "log"}, PosInf, NaN, NaN, FALSE, TRUE)

\* Lines 83-124, reached with dose # 0.  Line 83 divides by doseRate: Python
\* numbers raise ZeroDivisionError, NumPy scalars give inf.
exposureOER(dose, doseRate, O2Mean, oxDepletion, oxRecovery, OERCenter, np, rnd) ==
    IF doseRate = 0
    THEN IF np
         THEN infiniteExposure(O2Mean, oxRecovery)
         ELSE Outcome(ZeroDivisionError, "none", {"div"}, Unset, Unset, Unset, FALSE, FALSE)
    ELSE IF ~linearModel
    THEN Outcome(proportionalOER(Div(dose, doseRate), doseRate, O2Mean, oxDepletion,
                                 oxRecovery, OERCenter),
                 "dependent", {"div", "exp", "log"}, Fin(Div(dose, doseRate)),
                 Unset, Unset, FALSE, FALSE)
    ELSE independentOER(Div(dose, doseRate), doseRate, O2Mean, oxDepletion, oxRecovery,
                        OERCenter, rnd)

\* Mutant of cumulativeOER: t = dose/doseRate computed before the test of dose.
cumulativeOER_DivideFirst(dose, doseRate, O2Mean, oxDepletion, oxRecovery, OERCenter, np, rnd) ==
    IF dose = 0 /\ doseRate = 0
    THEN IF np
         THEN Outcome(Fin(0), "sentinel", {"div"}, NaN, Unset, Unset, FALSE, FALSE)
         ELSE Outcome(ZeroDivisionError, "none", {"div"}, Unset, Unset, Unset, FALSE, FALSE)
    ELSE IF dose = 0
    THEN Outcome(Fin(0), "sentinel", {"div"}, Fin(0), Unset, Unset, FALSE, FALSE)
    ELSE exposureOER(dose, doseRate, O2Mean, oxDepletion, oxRecovery, OERCenter, np, rnd)

\* Mutant of cumulativeOER: no test of dose, so dose = 0 gives t = 0 and the
\* integral over no time divided by t: 0/0.
cumulativeOER_NoSentinel(dose, doseRate, O2Mean, oxDepletion, oxRecovery, OERCenter, np, rnd) ==
    IF dose = 0
    THEN IF doseRate = 0 /\ ~np
         THEN Outcome(ZeroDivisionError, "none", {"div"}, Unset, Unset, Unset, FALSE, FALSE)
         ELSE Outcome(NaN, "none", {"div", "exp", "log"}, Fin(0), Unset, Unset, FALSE, FALSE)
    ELSE exposureOER(dose, doseRate, O2Mean, oxDepletion, oxRecovery, OERCenter, np, rnd)

\* Line 81 first: "if dose==0: return 0".
cumulativeOER(dose, doseRate, O2Mean, oxDepletion, oxRecovery, OERCenter, np, rnd) ==
    IF dose = 0
    THEN Outcome(Fin(0), "sentinel", {}, Unset, Unset, Unset, FALSE, FALSE)
    ELSE exposureOER(dose, doseRate, O2Mean, oxDepletion, oxRecovery, OERCenter, np, rnd)

-----------------------------------------------------------------------------
(* predictSurvival, lines 130-138 *)

\* The defaults of the signatures: cumulativeOER's (lines 79-80) and
\* predictSurvival's (lines 130-131), where oxRec defaults to REFoxDep.
cumulativeOERDefaults ==
    [oxDepletion |-> REFoxDep, oxRecovery |-> REFoxRec, OERCenter |-> REFOERCenter]

predictSurvivalDefaults ==
    [oxDep |-> REFoxDep, oxRec |-> REFoxDep, OERCentre |-> REFOERCenter]

\* Lines 135-136 for one exposure: scaledDose = dose*OER,
\* surv = exp(-scaledDose*alpha - beta*scaledDose*scaledDose).  With OER = inf
\* the exponent is -inf (surv = 0.0) when alpha and beta are both positive and
\* nan when one of them is 0 (0*inf); with OER = -inf it is inf - inf = nan.
survival(dose, oer, alpha, beta) ==
    CASE oer.kind = "num" ->
            LET scaledDose == Mul(dose, oer.v)
            IN  Fin(Exp(-Mul(scaledDose, alpha) - Mul(Mul(beta, scaledDose), scaledDose)))
      [] oer.kind = "inf" ->
            IF dose > 0 /\ alpha > 0 /\ beta > 0 THEN Fin(0) ELSE NaN
      [] OTHER -> NaN

\* One pass of the loop body, lines 134-137.
survivalOf(exposure, alpha, beta, oxDep, oxRec, OERCentre, np, rnd) ==
    LET oer == cumulativeOER(exposure[1], exposure[2], exposure[3], oxDep, oxRec,
                             OERCentre, np, rnd)
    IN  IF oer.kind = "raise" THEN ZeroDivisionError
        ELSE survival(exposure[1], oer, alpha, beta)

-----------------------------------------------------------------------------
(* Inputs *)

MaxExposures == 2
MaxTimes == 2

Doses == {0, Scale \div 2, Scale, 2 * Scale}
DoseRates == {0, Scale, 2 * Scale}
\* fractions of 100% O2
Oxygens == {0, Scale \div 2, (3 * Scale) \div 4, Scale}
Times == {0, Scale \div 2, 2 * Scale}
DepletionRates == {REFoxDep, Scale}
RecoveryRates == {0, REFoxRec}
OERCenters == {REFOERCenter, Scale \div 2}
Residues == {"nan", "inf", "-inf"}

\* The dose whose exposure ends exactly when the oxygen reaches zero.
CrossDoses(doseRate, O2Mean, oxDepletion, oxRecovery) ==
    IF linearModel /\ doseRate > 0 /\ oxRecovery > 0
       /\ depletionThresholdOf(doseRate, O2Mean, oxDepletion, oxRecovery) < Scale
    THEN {Mul(crossTimeOf(depletionThresholdOf(doseRate, O2Mean, oxDepletion,
                                               oxRecovery), oxRecovery).v, doseRate)}
    ELSE {}

\* [dose, doseRate, o2] sub-lists: a zero dose, an ordinary exposure, one on
\* the singular line of the independent regime, and two with no dose rate.
SurvivalExposures ==
    {<<0, Scale, Scale \div 2>>, <<Scale, Scale, Scale \div 2>>,
     <<Scale \div 2, Scale, Scale \div 2>>, <<0, 0, 0>>, <<Scale, 0, Scale \div 2>>}

Radiosensitivities == {<<0, 0>>, <<120000, 27000>>}

SeqsUpTo(S, n) == UNION {[1..m -> S] : m \in 1..n}

-----------------------------------------------------------------------------
(* Calls *)

Init ==
    /\ linearModel \in BOOLEAN
    /\ pc = "idle"
    /\ fn = "none"
    /\ args = [none |-> TRUE]
    /\ i = 0
    /\ retVals = <<>>
    /\ ret = Unset

CallOxygenCurve ==
    /\ pc = "idle"
    /\ \E t \in SeqsUpTo(Times, MaxTimes), doseRate \in DoseRates \ {0}, O2Mean \in Oxygens,
          oxDepletion \in DepletionRates, oxRecovery \in RecoveryRates, np \in BOOLEAN :
          /\ args' = [t |-> t, doseRate |-> doseRate, O2Mean |-> O2Mean,
                      oxDepletion |-> oxDepletion, oxRecovery |-> oxRecovery, np |-> np]
          /\ ret' = oxygenCurve(t, doseRate, O2Mean, oxDepletion, oxRecovery, np)
          /\ pc' = IF ret'.kind = "raise" THEN "raised" ELSE "returned"
    /\ fn' = "oxygenCurve"
    /\ UNCHANGED <<linearModel, i, retVals>>

CallOER ==
    /\ pc = "idle"
    /\ \E oxygen \in Oxygens, centralPoint \in OERCenters :
          /\ args' = [oxygen |-> oxygen, centralPoint |-> centralPoint]
          /\ ret' = OER(oxygen, centralPoint)
          /\ pc' = IF ret'.kind = "raise" THEN "raised" ELSE "returned"
    /\ fn' = "OER"
    /\ UNCHANGED <<linearModel, i, retVals>>

\* The rate arguments are given, or left to the defaults of lines 79-80.
CallCumulativeOER ==
    /\ pc = "idle"
    /\ \E doseRate \in DoseRates, O2Mean \in Oxygens, defaults \in BOOLEAN,
          oxDepletion \in DepletionRates, oxRecovery \in RecoveryRates,
          OERCenter \in OERCenters, np \in BOOLEAN, rnd \in Residues :
          \E dose \in Doses \cup CrossDoses(doseRate, O2Mean, oxDepletion, oxRecovery) :
             /\ defaults => /\ oxDepletion = cumulativeOERDefaults.oxDepletion
                            /\ oxRecovery = cumulativeOERDefaults.oxRecovery
                            /\ OERCenter = cumulativeOERDefaults.OERCenter
             /\ args' = [dose |-> dose, doseRate |-> doseRate, O2Mean |-> O2Mean,
                         oxDepletion |-> oxDepletion, oxRecovery |-> oxRecovery,
                         OERCenter |-> OERCenter, defaults |-> defaults,
                         np |-> np, rnd |-> rnd]
             /\ ret' = cumulativeOER(dose, doseRate, O2Mean, oxDepletion, oxRecovery,
                                     OERCenter, np, rnd)
             /\ pc' = IF ret'.kind = "raise" THEN "raised" ELSE "returned"
    /\ fn' = "cumulativeOER"
    /\ UNCHANGED <<linearModel, i, retVals>>

\* Lines 130-132: the parameters are bound and retVals = [].
CallPredictSurvival ==
    /\ pc = "idle"
    /\ \E exposures \in SeqsUpTo(SurvivalExposures, MaxExposures),
          ab \in Radiosensitivities, defaults \in BOOLEAN,
          oxDep \in DepletionRates, oxRec \in RecoveryRates \cup {REFoxDep},
          OERCentre \in OERCenters, np \in BOOLEAN, rnd \in Residues :
          /\ IF defaults
             THEN /\ oxDep = predictSurvivalDefaults.oxDep
                  /\ oxRec = predictSurvivalDefaults.oxRec
                  /\ OERCentre = predictSurvivalDefaults.OERCentre
             ELSE <<oxDep, oxRec, OERCentre>> \in
                     {<<REFoxDep, REFoxRec, REFOERCenter>>, <<Scale, Scale, Scale \div 2>>}
          /\ args' = [exposures |-> exposures, alpha |-> ab[1], beta |-> ab[2],
                      oxDep |-> oxDep, oxRec |-> oxRec, OERCentre |-> OERCentre,
                      defaults |-> defaults, np |-> np, rnd |-> rnd]
    /\ fn' = "predictSurvival"
    /\ pc' = "loop"
    /\ i' = 1
    /\ retVals' = <<>>
    /\ UNCHANGED <<linearModel, ret>>

\* Mutant of PredictSurvivalIter: the value is put at the front of retVals.
PredictSurvivalIter_Prepend ==
    /\ pc = "loop"
    /\ i <= Len(args.exposures)
    /\ LET surv == survivalOf(args.exposures[i], args.alpha, args.beta, args.oxDep,
                              args.oxRec, args.OERCentre, args.np, args.rnd)
       IN  IF surv.kind = "raise"
           THEN /\ pc' = "raised"
                /\ ret' = ZeroDivisionError
                /\ UNCHANGED <<i, retVals>>
           ELSE /\ retVals' = <<surv>> \o retVals
                /\ i' = i + 1
                /\ UNCHANGED <<pc, ret>>
    /\ UNCHANGED <<linearModel, fn, args>>

\* Lines 133-137: one exposure.  An exception leaves the function.
PredictSurvivalIter ==
    /\ pc = "loop"
    /\ i <= Len(args.exposures)
    /\ LET surv == survivalOf(args.exposures[i], args.alpha, args.beta, args.oxDep,
                              args.oxRec, args.OERCentre, args.np, args.rnd)
       IN  IF surv.kind = "raise"
           THEN /\ pc' = "raised"
                /\ ret' = ZeroDivisionError
                /\ UNCHANGED <<i, retVals>>
           ELSE /\ retVals' = Append(retVals, surv)
                /\ i' = i + 1
                /\ UNCHANGED <<pc, ret>>
    /\ UNCHANGED <<linearModel, fn, args>>

\* Line 138.
PredictSurvivalReturn ==
    /\ pc = "loop"
    /\ i > Len(args.exposures)
    /\ ret' = [kind |-> "list", vals |-> retVals]
    /\ pc' = "returned"
    /\ UNCHANGED <<linearModel, fn, args, i, retVals>>

\* The caller takes the result (or the exception); the next call starts afresh.
Finish ==
    /\ pc \in {"returned", "raised"}
    /\ pc' = "idle"
    /\ fn' = "none"
    /\ args' = [none |-> TRUE]
    /\ i' = 0
    /\ retVals' = <<>>
    /\ ret' = Unset
    /\ UNCHANGED linearModel

Next ==
    \/ CallOxygenCurve
    \/ CallOER
    \/ CallCumulativeOER
    \/ CallPredictSurvival
    \/ PredictSurvivalIter
    \/ PredictSurvivalReturn
    \/ Finish

Spec == Init /\ [][Next]_vars

-----------------------------------------------------------------------------
(* Properties *)

Ended == pc \in {"returned", "raised"}

\* A value of the result record of cumulativeOER.
Result(r) == [kind |-> r.kind, v |-> r.v]

\* C1: cumulativeOER returns a value in [1/3, 1] for every dose > 0,
\* doseRate > 0, baselineOxygen >= 0 and valid rate constants, in both
\* regimes and in every branch of the concentration-independent one.  (The
\* bounds are taken with the grid's rounding, 5 units of 1/Scale.)
C1_CumulativeOERInRange ==
    (fn = "cumulativeOER" /\ Ended /\ args.dose > 0 /\ args.doseRate > 0)
    => /\ ret.kind = "num"
       /\ 3 * ret.v >= Scale - 15
       /\ ret.v <= Scale + 5

\* C2: cumulativeOER with dose == 0 returns exactly 0, in both regimes,
\* without evaluating t = dose/doseRate or any logarithm or exponential; and
\* it returns 0 only when dose == 0.
C2_ZeroDoseSentinel ==
    (fn = "cumulativeOER" /\ Ended)
    => /\ args.dose = 0 => /\ pc = "returned"
                           /\ Result(ret) = Fin(0)
                           /\ ret.ops = {}
                           /\ ret.t = Unset
       /\ Result(ret) = Fin(0) => args.dose = 0

C2_Witness ==
    /\ fn = "cumulativeOER" /\ pc = "returned" /\ linearModel
    /\ args.dose = 0 /\ args.doseRate > 0 /\ args.O2Mean > 0
    /\ Result(ret) = Fin(0) /\ ret.ops = {}

\* C3: a call whose doseRate is 0 fails with an invalid-argument condition
\* instead of returning a value, for every dose including dose == 0:
\* cumulativeOER does, and predictSurvival yields no surviving fraction for
\* an exposure whose doseRate is 0.
C3_ZeroDoseRateRejected ==
    /\ (fn = "cumulativeOER" /\ Ended /\ args.doseRate = 0) => pc = "raised"
    /\ fn = "predictSurvival"
       => \A j \in 1..Len(retVals) : args.exposures[j][2] # 0

\* The inputs of the documented domain: doseRate > 0 (recoveryRate >= 0,
\* depletionRate > 0, oerMidpoint > 0, oxygen, dose and t >= 0 hold of every
\* input drawn).
InDomain ==
    CASE fn \in {"oxygenCurve", "cumulativeOER"} -> args.doseRate > 0
      [] fn = "predictSurvival" ->
            \A j \in 1..Len(args.exposures) : args.exposures[j][2] > 0
      [] OTHER -> TRUE

\* C4: for every input inside the documented domain, oxygenCurve, OER,
\* cumulativeOER and predictSurvival return a finite numeric result and never
\* raise or yield NaN or infinity, in both regimes.
C4_TotalOnDomain ==
    (Ended /\ InDomain)
    => /\ pc = "returned"
       /\ fn \in {"OER", "cumulativeOER"} => ret.kind = "num"
       /\ fn \in {"oxygenCurve", "predictSurvival"}
          => \A j \in 1..Len(ret.vals) : ret.vals[j].kind = "num"

\* What predictSurvival's arguments make of one exposure.
SurvivingFraction(e) ==
    survivalOf(e, args.alpha, args.beta, args.oxDep, args.oxRec, args.OERCentre,
               args.np, args.rnd)

\* The list so far holds one value per exposure taken, in the order of the
\* input, each the function of its own exposure; the list returned holds one
\* per exposure; exposures with a dose rate never make the call raise.
OnePerExposure ==
    fn = "predictSurvival"
    => /\ Len(retVals) = i - 1
       /\ \A j \in 1..Len(retVals) : retVals[j] = SurvivingFraction(args.exposures[j])
       /\ pc = "returned" => /\ ret.kind = "list"
                             /\ ret.vals = retVals
                             /\ Len(ret.vals) = Len(args.exposures)
       /\ InDomain => pc # "raised"

\* C5: predictSurvival returns exactly one surviving fraction per input
\* exposure, in the order of the input; the i-th output depends only on the
\* i-th exposure and on alpha, beta and the rate constants; and the input
\* sequence is left unmodified.
C5_OnePerExposureInOrder ==
    /\ []OnePerExposure
    /\ [][(fn = "predictSurvival" /\ fn' = "predictSurvival") => args' = args]_vars

C5_Witness ==
    /\ fn = "predictSurvival" /\ pc = "returned"
    /\ Len(args.exposures) = 2 /\ Len(ret.vals) = 2
    /\ ret.vals[1] # ret.vals[2]
    /\ ret.vals[1].kind = "num" /\ ret.vals[2].kind = "num"
    /\ ret.vals[1].v < Scale /\ ret.vals[2].v < Scale

\* C6: for any exposure with dose == 0 (any alpha >= 0, beta >= 0)
\* predictSurvival yields a surviving fraction of exactly 1.0.
C6_ZeroDoseSurvivesFully ==
    fn = "predictSurvival"
    => \A j \in 1..Len(retVals) :
          args.exposures[j][1] = 0 => retVals[j] = Fin(Scale)

C6_Witness ==
    /\ fn = "predictSurvival" /\ pc = "returned" /\ args.alpha > 0 /\ args.beta > 0
    /\ \E j \in 1..Len(ret.vals) :
          /\ args.exposures[j][1] = 0 /\ args.exposures[j][2] > 0
          /\ ret.vals[j] = Fin(Scale)

\* C7: oxygenCurve is >= 0 for every t >= 0, doseRate > 0 and
\* baselineOxygen >= 0 in both regimes: the call returns one concentration
\* per time, each a number >= 0; in the concentration-independent regime a
\* closed-form value below 0 is reported as exactly 0, and in the
\* concentration-dependent regime the unclamped closed form is itself never
\* negative.
C7_OxygenNonNegative ==
    (fn = "oxygenCurve" /\ Ended /\ args.doseRate > 0)
    => /\ pc = "returned"
       /\ Len(ret.vals) = Len(args.t)
       /\ \A j \in 1..Len(args.t) :
             LET closed == estO2(args.t[j], args.doseRate, args.O2Mean, args.oxDepletion,
                                 args.oxRecovery, args.np)
                 unclamped == proportionalO2(args.t[j], args.doseRate, args.O2Mean,
                                             args.oxDepletion, args.oxRecovery, args.np)
             IN  /\ ret.vals[j].kind = "num"
                 /\ ret.vals[j].v >= 0
                 /\ linearModel
                    => ret.vals[j] = (IF closed.v < 0 THEN Fin(0) ELSE closed)
                 /\ ~linearModel
                    => (ret.vals[j] = unclamped /\ unclamped.v >= 0)

\* The claim's quantities, from its formulas.
ClaimThreshold ==
    Div(Mul(args.O2Mean, args.oxRecovery), Mul(args.doseRate, args.oxDepletion))

ClaimCrossTime == Div(-Ln(Scale - ClaimThreshold), args.oxRecovery)

\* The closed form integrated up to x.
ClosedForm(x) ==
    directE(x, args.doseRate, args.O2Mean, args.oxDepletion, args.oxRecovery,
            args.OERCenter, args.rnd)

\* (E + rest) / t, for a finite E.
Averaged(E, rest, t) == IF E.kind = "num" THEN Fin(Div(E.v + rest, t)) ELSE E

C9_NoJumpAtCrossTime ==
    (fn = "cumulativeOER" /\ pc = "returned" /\ linearModel
     /\ args.dose > 0 /\ args.doseRate > 0
     /\ ret.crossTime.kind = "num" /\ ret.crossTime = ret.t)
    => /\ ret.path = "split"
       /\ Result(ret) = Averaged(ClosedForm(ret.t.v), 0, ret.t.v)

C9_Witness ==
    /\ fn = "cumulativeOER" /\ pc = "returned" /\ linearModel
    /\ args.dose > 0 /\ args.doseRate > 0
    /\ ret.crossTime.kind = "num" /\ ret.crossTime = ret.t
    /\ ret.path = "split" /\ ret.kind = "num"

\* C10: when predictSurvival is called without rate overrides, the recovery
\* rate it passes to cumulativeOER is REFoxRec, so every result equals
\* exp(-s*alpha - beta*s^2) with s = dose * cumulativeOER(dose, doseRate,
\* baselineOxygen) evaluated with cumulativeOER's own default rate constants.
C10_DefaultRecoveryIsREFoxRec ==
    (fn = "predictSurvival" /\ args.defaults)
    => /\ args.oxRec = REFoxRec
       /\ \A j \in 1..Len(retVals) :
             retVals[j] = survivalOf(args.exposures[j], args.alpha, args.beta,
                                     cumulativeOERDefaults.oxDepletion,
                                     cumulativeOERDefaults.oxRecovery,
                                     cumulativeOERDefaults.OERCenter,
                                     args.np, args.rnd)

====
